---- MODULE Spec2Model ----
(***************************************************************************)
(* TemporaryVoiceChannelController                                         *)
(* (src/tux/database/controllers/temporary_voice_channel.py).              *)
(*                                                                         *)
(* The controller is a set of coroutines over a table of                   *)
(* TemporaryVoiceChannel rows.  Every `await` of a BaseController          *)
(* primitive (find_one, create, update_by_id, delete_by_id) is one request *)
(* to the store and one step of the model; a coroutine that awaits twice   *)
(* (get_or_create, delete) is two steps, and other callers may run between *)
(* them.  BaseController and the TemporaryVoiceChannel table are not part  *)
(* of the file; their behaviour is taken from the specification (composite *)
(* primary key, absent result on a missing key, constraint violations      *)
(* raised to the caller).                                                  *)
(***************************************************************************)
EXTENDS Integers, FiniteSets, Sequences, TLC

\* ---- bounds ----
NumCallers == 2
MaxGuild == 2
MaxChannel == 1
MaxUser == 2
MaxTime == 1

\* timedelta(minutes=5); the clock of the model counts minutes
GraceMinutes == 5

Callers == 1..NumCallers
Guilds == 1..MaxGuild
Channels == 1..MaxChannel
Users == 1..MaxUser

\* Optional values: Python's None and a present value
None == <<>>
Some(x) == <<x>>

VARIABLES
    store,  \* the rows of the TemporaryVoiceChannel table
    now,    \* datetime.now(UTC), in minutes
    pc,     \* position of each caller's coroutine
    op,     \* the operation each caller is running
    args,   \* its arguments
    ret,    \* its return value (None until it returns a value)
    reqs    \* store requests it has awaited so far

vars == <<store, now, pc, op, args, ret, reqs>>

\* ---- the table and the BaseController primitives ----

\* TemporaryVoiceChannel(guild_id=, voice_channel_id=, owner_id=); owner_left_time defaults to null
TemporaryVoiceChannel(guild_id, voice_channel_id, owner_id) ==
    [guild_id |-> guild_id, voice_channel_id |-> voice_channel_id,
     owner_id |-> owner_id, owner_left_time |-> None]

\* the rows with primary key (guild_id, voice_channel_id)
RowsAt(S, guild_id, voice_channel_id) ==
    {r \in S : r.guild_id = guild_id /\ r.voice_channel_id = voice_channel_id}

\* find_one(filters), given the rows that satisfy the filters: one of them
\* (which one is up to the store), or None
find_one(matching) ==
    IF matching = {} THEN {None} ELSE {Some(r) : r \in matching}

create_unchecked(S, row) ==
    [raised |-> FALSE, store |-> S \cup {row}, ret |-> Some(row)]

\* create(**fields): inserts the row; the primary key constraint rejects a duplicate key
create(S, row) ==
    IF RowsAt(S, row.guild_id, row.voice_channel_id) # {}
    THEN [raised |-> TRUE, store |-> S, ret |-> None]
    ELSE [raised |-> FALSE, store |-> S \cup {row}, ret |-> Some(row)]

\* update_by_id(key, owner_left_time=v): the updated row, or None when the key is missing
update_by_id(S, guild_id, voice_channel_id, owner_left_time) ==
    IF RowsAt(S, guild_id, voice_channel_id) = {}
    THEN [store |-> S, ret |-> None]
    ELSE LET old == CHOOSE r \in RowsAt(S, guild_id, voice_channel_id) : TRUE
             new == [old EXCEPT !.owner_left_time = owner_left_time]
         IN  [store |-> (S \ RowsAt(S, guild_id, voice_channel_id)) \cup {new},
              ret |-> Some(new)]

\* delete_by_id(key): True when a row was deleted, False when the key is missing
delete_by_id(S, guild_id, voice_channel_id) ==
    [store |-> S \ RowsAt(S, guild_id, voice_channel_id),
     ret |-> RowsAt(S, guild_id, voice_channel_id) # {}]

\* ---- the filters the controller builds ----

by_id_filter_or(r, guild_id, channel_id) ==
    r.guild_id = guild_id \/ r.voice_channel_id = channel_id

\* (TemporaryVoiceChannel.guild_id == guild_id) & (TemporaryVoiceChannel.voice_channel_id == channel_id)
by_id_filter(r, guild_id, channel_id) ==
    r.guild_id = guild_id /\ r.voice_channel_id = channel_id

\* TemporaryVoiceChannel.owner_id == user_id
by_owner_filter(r, user_id) == r.owner_id = user_id

\* ---- callers ----
NoArgs == [guild_id |-> 0, channel_id |-> 0, owner_id |-> 0, owner_left |-> FALSE]
Args(g, c, o, l) == [guild_id |-> g, channel_id |-> c, owner_id |-> o, owner_left |-> l]

\* a caller starts operation o with arguments a and awaits its first store request
Begin(p, o, a) ==
    /\ pc[p] = "idle"
    /\ op' = [op EXCEPT ![p] = o]
    /\ args' = [args EXCEPT ![p] = a]
    /\ reqs' = [reqs EXCEPT ![p] = 1]

\* the second store request of an operation
Continue(p) ==
    /\ UNCHANGED <<op, args>>
    /\ reqs' = [reqs EXCEPT ![p] = reqs[p] + 1]

Finish(p, position, value) ==
    /\ pc' = [pc EXCEPT ![p] = position]
    /\ ret' = [ret EXCEPT ![p] = value]

Init ==
    /\ store = {}
    /\ now = 0
    /\ pc = [p \in Callers |-> "idle"]
    /\ op = [p \in Callers |-> "none"]
    /\ args = [p \in Callers |-> NoArgs]
    /\ ret = [p \in Callers |-> None]
    /\ reqs = [p \in Callers |-> 0]

\* ---- get_or_create_temporary_voice_channel ----

get_or_create_lookup_no_return(p) ==
    \E g \in Guilds, c \in Channels, o \in Users :
        /\ Begin(p, "get_or_create", Args(g, c, o, FALSE))
        /\ LET matching == {r \in store : by_id_filter(r, g, c)}
           IN  \E found \in find_one(matching) : Finish(p, "create", None)
        /\ UNCHANGED <<store, now>>

\* lines 46-51: await get_temporary_voice_channel_by_id; return the row when there is one
get_or_create_lookup(p) ==
    \E g \in Guilds, c \in Channels, o \in Users :
        /\ Begin(p, "get_or_create", Args(g, c, o, FALSE))
        /\ LET matching == {r \in store : by_id_filter(r, g, c)}
           IN  \E found \in find_one(matching) :
                   IF found # None
                   THEN Finish(p, "done", found)
                   ELSE Finish(p, "create", None)
        /\ UNCHANGED <<store, now>>

get_or_create_create_owner_from_guild(p) ==
    /\ pc[p] = "create"
    /\ Continue(p)
    /\ LET res == create(store, TemporaryVoiceChannel(args[p].guild_id,
                                  args[p].channel_id, args[p].guild_id))
       IN  /\ store' = res.store
           /\ Finish(p, IF res.raised THEN "raised" ELSE "done", res.ret)
    /\ UNCHANGED now

get_or_create_create_catch(p) ==
    /\ pc[p] = "create"
    /\ Continue(p)
    /\ LET res == create(store, TemporaryVoiceChannel(args[p].guild_id,
                                  args[p].channel_id, args[p].owner_id))
       IN  /\ store' = res.store
           /\ IF res.raised
              THEN \E r \in RowsAt(store, args[p].guild_id, args[p].channel_id) :
                       Finish(p, "done", Some(r))
              ELSE Finish(p, "done", res.ret)
    /\ UNCHANGED now

\* lines 52-56: await self.create(...); an exception of create leaves the coroutine unhandled
get_or_create_create(p) ==
    /\ pc[p] = "create"
    /\ Continue(p)
    /\ LET res == create(store, TemporaryVoiceChannel(args[p].guild_id,
                                  args[p].channel_id, args[p].owner_id))
       IN  /\ store' = res.store
           /\ Finish(p, IF res.raised THEN "raised" ELSE "done", res.ret)
    /\ UNCHANGED now

\* ---- get_temporary_voice_channel_by_id ----

\* lines 71-74: one find_one with the composite-key filter
get_temporary_voice_channel_by_id(p) ==
    \E g \in Guilds, c \in Channels :
        /\ Begin(p, "get_by_id", Args(g, c, 0, FALSE))
        /\ LET matching == {r \in store : by_id_filter(r, g, c)}
           IN  \E found \in find_one(matching) : Finish(p, "done", found)
        /\ UNCHANGED <<store, now>>

\* ---- get_temporary_voice_channel_by_owner_id ----

\* line 88: one find_one with the owner filter
get_temporary_voice_channel_by_owner_id(p) ==
    \E u \in Users :
        /\ Begin(p, "get_by_owner_id", Args(0, 0, u, FALSE))
        /\ LET matching == {r \in store : by_owner_filter(r, u)}
           IN  \E found \in find_one(matching) : Finish(p, "done", found)
        /\ UNCHANGED <<store, now>>

\* ---- delete_temporary_voice_channel ----

delete_lookup_true_when_missing(p) ==
    \E g \in Guilds, c \in Channels :
        /\ Begin(p, "delete", Args(g, c, 0, FALSE))
        /\ LET matching == {r \in store : by_id_filter(r, g, c)}
           IN  \E found \in find_one(matching) :
                   IF found = None
                   THEN Finish(p, "done", Some(TRUE))
                   ELSE Finish(p, "delete", None)
        /\ UNCHANGED <<store, now>>

\* lines 103-108: await get_temporary_voice_channel_by_id; return False when there is no row
delete_lookup(p) ==
    \E g \in Guilds, c \in Channels :
        /\ Begin(p, "delete", Args(g, c, 0, FALSE))
        /\ LET matching == {r \in store : by_id_filter(r, g, c)}
           IN  \E found \in find_one(matching) :
                   IF found = None
                   THEN Finish(p, "done", Some(FALSE))
                   ELSE Finish(p, "delete", None)
        /\ UNCHANGED <<store, now>>

\* line 110: return await self.delete_by_id((guild_id, channel_id))
delete_delete(p) ==
    /\ pc[p] = "delete"
    /\ Continue(p)
    /\ LET res == delete_by_id(store, args[p].guild_id, args[p].channel_id)
       IN  /\ store' = res.store
           /\ Finish(p, "done", Some(res.ret))
    /\ UNCHANGED now

\* ---- handle_owner_left_time ----

handle_owner_left_time_swapped(p) ==
    \E g \in Guilds, c \in Channels, owner_left \in BOOLEAN :
        /\ Begin(p, "set_owner_left", Args(g, c, 0, owner_left))
        /\ LET res == IF ~owner_left
                      THEN update_by_id(store, g, c, Some(now + GraceMinutes))
                      ELSE update_by_id(store, g, c, None)
           IN  /\ store' = res.store
               /\ Finish(p, "done", res.ret)
        /\ UNCHANGED now

handle_owner_left_time_upsert(p) ==
    \E g \in Guilds, c \in Channels, owner_left \in BOOLEAN :
        /\ Begin(p, "set_owner_left", Args(g, c, 0, owner_left))
        /\ LET base == create_unchecked(RowsAt(store, g, c),
                           TemporaryVoiceChannel(g, c, CHOOSE u \in Users : TRUE)).store
               S == IF RowsAt(store, g, c) = {} THEN store \cup base ELSE store
               res == IF owner_left
                      THEN update_by_id(S, g, c, Some(now + GraceMinutes))
                      ELSE update_by_id(S, g, c, None)
           IN  /\ store' = res.store
               /\ Finish(p, "done", res.ret)
        /\ UNCHANGED now

handle_owner_left_time_channel_only(p) ==
    \E g \in Guilds, c \in Channels, owner_left \in BOOLEAN :
        /\ Begin(p, "set_owner_left", Args(g, c, 0, owner_left))
        /\ LET v == IF owner_left THEN Some(now + GraceMinutes) ELSE None
               res == update_by_id(store, g, c, v)
           IN  /\ store' = {IF r.voice_channel_id = c
                            THEN [r EXCEPT !.owner_left_time = v] ELSE r : r \in store}
               /\ Finish(p, "done", res.ret)
        /\ UNCHANGED now

handle_owner_left_time_lookup_first(p) ==
    \/ \E g \in Guilds, c \in Channels, owner_left \in BOOLEAN :
        /\ Begin(p, "set_owner_left", Args(g, c, 0, owner_left))
        /\ IF RowsAt(store, g, c) = {}
           THEN Finish(p, "done", None)
           ELSE Finish(p, "update", None)
        /\ UNCHANGED <<store, now>>
    \/ /\ pc[p] = "update"
       /\ Continue(p)
       /\ LET res == IF args[p].owner_left
                     THEN update_by_id(store, args[p].guild_id, args[p].channel_id,
                                       Some(now + GraceMinutes))
                     ELSE update_by_id(store, args[p].guild_id, args[p].channel_id, None)
          IN  /\ store' = res.store
              /\ Finish(p, "done", res.ret)
       /\ UNCHANGED now

\* lines 128-137: one update_by_id, with now + 5 minutes or with None
handle_owner_left_time(p) ==
    \E g \in Guilds, c \in Channels, owner_left \in BOOLEAN :
        /\ Begin(p, "set_owner_left", Args(g, c, 0, owner_left))
        /\ LET res == IF owner_left
                      THEN update_by_id(store, g, c, Some(now + GraceMinutes))
                      ELSE update_by_id(store, g, c, None)
           IN  /\ store' = res.store
               /\ Finish(p, "done", res.ret)
        /\ UNCHANGED now

\* ---- environment ----

\* the caller takes the result (or the exception) and is free to call again
Return(p) ==
    /\ pc[p] \in {"done", "raised"}
    /\ pc' = [pc EXCEPT ![p] = "idle"]
    /\ op' = [op EXCEPT ![p] = "none"]
    /\ args' = [args EXCEPT ![p] = NoArgs]
    /\ ret' = [ret EXCEPT ![p] = None]
    /\ reqs' = [reqs EXCEPT ![p] = 0]
    /\ UNCHANGED <<store, now>>

\* the wall clock advances
Tick ==
    /\ now < MaxTime
    /\ now' = now + 1
    /\ UNCHANGED <<store, pc, op, args, ret, reqs>>

Next ==
    \/ \E p \in Callers : get_or_create_lookup(p)
    \/ \E p \in Callers : get_or_create_create(p)
    \/ \E p \in Callers : get_temporary_voice_channel_by_id(p)
    \/ \E p \in Callers : get_temporary_voice_channel_by_owner_id(p)
    \/ \E p \in Callers : delete_lookup(p)
    \/ \E p \in Callers : delete_delete(p)
    \/ \E p \in Callers : handle_owner_left_time(p)
    \/ \E p \in Callers : Return(p)
    \/ Tick

Spec == Init /\ [][Next]_vars

TypeOK ==
    /\ now \in 0..MaxTime
    /\ pc \in [Callers -> {"idle", "create", "delete", "done", "raised"}]
    /\ \A r \in store : r.guild_id \in Guilds /\ r.voice_channel_id \in Channels
                        /\ r.owner_id \in Users

\* ---- properties ----

KeyRows(S, a) == RowsAt(S, a.guild_id, a.channel_id)
SameKey(r, s) == r.guild_id = s.guild_id /\ r.voice_channel_id = s.voice_channel_id
\* caller p issues the first store request of operation o in this step
Starts(p, o) == pc[p] = "idle" /\ op'[p] = o
\* caller p issues the second store request of its operation in this step
Resumes(p, position) == pc[p] = position /\ pc'[p] # position

\* C1: get_or_create on a key that has a row returns that row, whatever owner_id
\* is passed, and leaves the table as it is (so the owner of the first call stays).
C1_GetOrCreateExisting ==
    [][\A p \in Callers :
        (Starts(p, "get_or_create") /\ KeyRows(store, args'[p]) # {}) =>
            /\ pc'[p] = "done"
            /\ \A r \in KeyRows(store, args'[p]) : ret'[p] = Some(r)
            /\ store' = store]_vars

C1_Witness ==
    \E p \in Callers :
        /\ pc[p] = "done" /\ op[p] = "get_or_create" /\ reqs[p] = 1
        /\ ret[p] # None
        /\ ret[p][1].owner_id # args[p].owner_id
        /\ ret[p][1] \in store

\* C2: get_or_create on a key without a row adds exactly the row (guild_id,
\* voice_channel_id, owner_id, null), returns it and changes no other row.
C2_GetOrCreateAbsent ==
    [][\A p \in Callers :
        /\ (Starts(p, "get_or_create") /\ KeyRows(store, args'[p]) = {}) =>
               (pc'[p] = "create" /\ store' = store)
        /\ (Resumes(p, "create") /\ KeyRows(store, args[p]) = {}) =>
               LET row == [guild_id |-> args[p].guild_id,
                           voice_channel_id |-> args[p].channel_id,
                           owner_id |-> args[p].owner_id,
                           owner_left_time |-> None]
               IN  /\ store' = store \cup {row}
                   /\ pc'[p] = "done"
                   /\ ret'[p] = Some(row)]_vars

C2_Witness ==
    \E p \in Callers :
        /\ pc[p] = "done" /\ op[p] = "get_or_create" /\ reqs[p] = 2
        /\ ret[p] # None
        /\ ret[p][1] \in store
        /\ ret[p][1].owner_id = args[p].owner_id
        /\ ret[p][1].owner_id # ret[p][1].guild_id
        /\ \E other \in store : ~SameKey(other, ret[p][1])

\* C3: delete returns false and changes nothing when the key has no row; when
\* it has one, delete returns true, removes exactly that row, and a lookup of
\* the key then finds nothing.
C3_Delete ==
    [][\A p \in Callers :
        /\ (Starts(p, "delete") /\ pc'[p] # "done") =>
               (KeyRows(store, args'[p]) # {} /\ store' = store /\ pc'[p] = "delete")
        /\ ((Starts(p, "delete") \/ Resumes(p, "delete")) /\ pc'[p] = "done") =>
               LET rows == KeyRows(store, args'[p])
                   matching == {r \in store' :
                                   by_id_filter(r, args'[p].guild_id, args'[p].channel_id)}
               IN  IF rows = {}
                   THEN ret'[p] = Some(FALSE) /\ store' = store
                   ELSE /\ ret'[p] = Some(TRUE)
                        /\ Cardinality(rows) = 1
                        /\ store' = store \ rows
                        /\ find_one(matching) = {None}]_vars

C3_Witness ==
    /\ \E p \in Callers :
        /\ pc[p] = "done" /\ op[p] = "delete" /\ ret[p] = Some(TRUE)
        /\ KeyRows(store, args[p]) = {}
        /\ store # {}
    /\ \E q \in Callers :
        /\ pc[q] = "done" /\ op[q] = "delete" /\ ret[q] = Some(FALSE) /\ reqs[q] = 1

\* C4: on a key that has a row, set_owner_left(true) sets owner_left_time to
\* now + 5 minutes and set_owner_left(false) sets it to null, whatever it was;
\* the updated row is returned.
C4_SetOwnerLeft ==
    [][\A p \in Callers :
        (Starts(p, "set_owner_left") /\ KeyRows(store, args'[p]) # {}) =>
            /\ pc'[p] = "done"
            /\ \A r \in KeyRows(store, args'[p]) :
                   LET updated == [r EXCEPT !.owner_left_time =
                                      IF args'[p].owner_left THEN Some(now + 5) ELSE None]
                   IN  /\ ret'[p] = Some(updated)
                       /\ KeyRows(store', args'[p]) = {updated}]_vars

C4_Witness ==
    \E p, q \in Callers :
        /\ pc[p] = "done" /\ op[p] = "set_owner_left" /\ args[p].owner_left
        /\ ret[p] # None /\ ret[p][1].owner_left_time = Some(now + 5)
        /\ pc[q] = "done" /\ op[q] = "set_owner_left" /\ ~args[q].owner_left
        /\ args[q].guild_id = args[p].guild_id /\ args[q].channel_id = args[p].channel_id
        /\ ret[q] # None /\ ret[q][1].owner_left_time = None
        /\ ret[q][1] \in store

\* C5: set_owner_left on a key without a row returns absent without raising,
\* creates no row and leaves the table unchanged, for owner_left true and false.
C5_SetOwnerLeftMissing ==
    [][\A p \in Callers :
        (Starts(p, "set_owner_left") /\ KeyRows(store, args'[p]) = {}) =>
            /\ pc'[p] = "done"
            /\ ret'[p] = None
            /\ store' = store]_vars

C5_Witness ==
    \E p, q \in Callers :
        /\ pc[p] = "done" /\ op[p] = "set_owner_left" /\ args[p].owner_left
        /\ ret[p] = None /\ KeyRows(store, args[p]) = {}
        /\ pc[q] = "done" /\ op[q] = "set_owner_left" /\ ~args[q].owner_left
        /\ ret[q] = None /\ KeyRows(store, args[q]) = {}
        /\ store # {}

\* C6: in every reachable state at most one row exists per
\* (guild_id, voice_channel_id), also when two get_or_create calls for the
\* same absent key both look up before either creates.
C6_PrimaryKeyUnique ==
    \A r \in store : \A s \in store : SameKey(r, s) => r = s

C6_Witness ==
    \E p, q \in Callers :
        /\ p # q
        /\ pc[p] = "done" /\ op[p] = "get_or_create" /\ reqs[p] = 2
        /\ pc[q] = "create"
        /\ args[p].guild_id = args[q].guild_id /\ args[p].channel_id = args[q].channel_id
        /\ args[p].owner_id # args[q].owner_id
        /\ Cardinality(KeyRows(store, args[q])) = 1

\* C7 (as stated): every operation is one atomic request: while a caller is
\* between its read of the table and its write, no other step changes the table.
C7_EveryOperationAtomic ==
    [][\A p \in Callers :
        (pc[p] \in {"create", "delete"} /\ pc'[p] = pc[p]) => store' = store]_vars

\* C7 (amended): get_by_id, get_by_owner_id and set_owner_left are one request
\* each and finish with it; get_or_create and delete make at most two requests,
\* a lookup and then a create or delete, and are between the two only at
\* those positions.
C7_RequestsPerOperation ==
    \A p \in Callers :
        /\ op[p] \in {"get_by_id", "get_by_owner_id", "set_owner_left"} =>
               (pc[p] = "done" /\ reqs[p] = 1)
        /\ op[p] = "get_or_create" =>
               /\ pc[p] \in {"create", "done", "raised"}
               /\ reqs[p] \in {1, 2}
               /\ pc[p] = "create" => reqs[p] = 1
               /\ pc[p] = "raised" => reqs[p] = 2
        /\ op[p] = "delete" =>
               /\ pc[p] \in {"delete", "done"}
               /\ reqs[p] \in {1, 2}
               /\ pc[p] = "delete" => reqs[p] = 1
        /\ op[p] = "none" => (pc[p] = "idle" /\ reqs[p] = 0)

C7_Witness ==
    \E p, q \in Callers :
        /\ pc[p] = "create" /\ KeyRows(store, args[p]) # {}
        /\ pc[q] = "done" /\ op[q] = "set_owner_left" /\ reqs[q] = 1 /\ ret[q] # None

\* C8: get_by_id returns absent when the key has no row, otherwise the row
\* whose guild_id and voice_channel_id both equal the arguments, never a row
\* that matches one of them only; it does not modify the table.
C8_GetById ==
    [][\A p \in Callers :
        Starts(p, "get_by_id") =>
            /\ pc'[p] = "done"
            /\ store' = store
            /\ IF KeyRows(store, args'[p]) = {}
               THEN ret'[p] = None
               ELSE /\ ret'[p] # None
                    /\ ret'[p][1] \in store
                    /\ ret'[p][1].guild_id = args'[p].guild_id
                    /\ ret'[p][1].voice_channel_id = args'[p].channel_id]_vars

C8_Witness ==
    \E p, q \in Callers :
        /\ pc[p] = "done" /\ op[p] = "get_by_id" /\ ret[p] = None
        /\ \E r \in store : r.voice_channel_id = args[p].channel_id
                            /\ r.guild_id # args[p].guild_id
        /\ pc[q] = "done" /\ op[q] = "get_by_id" /\ ret[q] # None
        /\ ret[q][1] \in store

\* C9: when a get_or_create reaches its create after another caller has
\* created the row, the create is rejected: the call ends with the constraint
\* violation raised to its caller, returns no row, and the table keeps the one
\* row of the create that succeeded.
C9_CreateRace ==
    [][\A p \in Callers :
        (Resumes(p, "create") /\ KeyRows(store, args[p]) # {}) =>
            /\ pc'[p] = "raised"
            /\ ret'[p] = None
            /\ store' = store
            /\ Cardinality(KeyRows(store', args[p])) = 1]_vars

C9_Witness ==
    \E p, q \in Callers :
        /\ p # q
        /\ pc[p] = "raised" /\ op[p] = "get_or_create" /\ ret[p] = None
        /\ pc[q] = "done" /\ op[q] = "get_or_create" /\ reqs[q] = 2
        /\ args[p].guild_id = args[q].guild_id /\ args[p].channel_id = args[q].channel_id
        /\ args[p].owner_id # args[q].owner_id
        /\ ret[q] # None /\ KeyRows(store, args[p]) = {ret[q][1]}

\* C10: no step changes the owner_id of a row that stays in the table; a new
\* row carries the owner_id of the get_or_create that created it; and
\* set_owner_left changes nothing but owner_left_time of the row at its key.
C10_OwnerFrame ==
    [][/\ \A r \in store : \A s \in store' : SameKey(r, s) => s.owner_id = r.owner_id
       /\ \A s \in store' :
              (\A r \in store : ~SameKey(r, s)) =>
                  \E p \in Callers :
                      /\ Resumes(p, "create") /\ pc'[p] = "done"
                      /\ s.guild_id = args[p].guild_id
                      /\ s.voice_channel_id = args[p].channel_id
                      /\ s.owner_id = args[p].owner_id
       /\ \A p \in Callers :
              Starts(p, "set_owner_left") =>
                  /\ \A r \in store :
                         IF r \in KeyRows(store, args'[p])
                         THEN \E s \in store' : s = [r EXCEPT !.owner_left_time = s.owner_left_time]
                         ELSE r \in store'
                  /\ Cardinality(store') = Cardinality(store)]_vars

C10_Witness ==
    \E p \in Callers :
        /\ pc[p] = "done" /\ op[p] = "set_owner_left" /\ args[p].owner_left
        /\ ret[p] # None /\ ret[p][1] \in store
        /\ \E other \in store :
               /\ ~SameKey(other, ret[p][1])
               /\ other.voice_channel_id = ret[p][1].voice_channel_id
               /\ other.owner_left_time = None
====
